---- MODULE Spec2Model ----
(***************************************************************************)
(* ByteTracker (src/rknn/ByteTracker.py): the per-frame update of the      *)
(* multi-object tracker, its three track lists and the STrack lifecycle.   *)
(*                                                                         *)
(* Track objects live in the arena `tracks`; an object's identity is its   *)
(* index in the arena.  tracked_tracks, lost_tracks and removed_tracks are *)
(* Python lists of object references, modelled as sequences of arena       *)
(* indices (duplicates are possible, as in a Python list).                 *)
(*                                                                         *)
(* Scores and thresholds are in hundredths (0.9 is 90).  Box coordinates   *)
(* are integers, so every IoU is an exact ratio of two integers.           *)
(* The Kalman filter of a track is the field kf, in exact fractions: the   *)
(* state vector from initiate through any number of predicts, the first    *)
(* update and the predicts after it; from the second update on the filter  *)
(* is carried as "unmodelled".  to_tlbr and to_tlwh read the tlwh          *)
(* attribute only (lines 191-198).                                         *)
(*                                                                         *)
(* RKNN_YOLO (src/rknn/RknnYolo.py): _nms_rotated, the decoding loop of    *)
(* _postprocess, and detect_and_track / enable_tracking around the         *)
(* tracker.  SpecShared adds a second tracker of the same process.         *)
(***************************************************************************)
EXTENDS Integers, Sequences, FiniteSets, TLC

\* ---------------------------------------------------------------- bounds
\* frames fed to one tracker under Spec and under SpecMalformed
MaxFrame == 3
\* frames fed to one tracker under SpecLong (at most one detection per frame)
MaxFrameLong == 6

\* frames fed to one tracker under SpecCrowd (two overlapping objects)
MaxFrameCrowd == 4

\* frames fed to one tracker under SpecShared, and the largest value another
\* tracker of the process drives STrack._next_id to
MaxFrameShared == 2
MaxNextId == 3

\* calls of detect_and_track and enable_tracking under SpecPipeline
MaxCalls == 3

\* largest coordinate of the boxes iou_batch and the box conversions are
\* applied to under SpecIou and SpecBox
MaxCoord == 2

\* most boxes in a list handed to _nms_rotated under SpecNms
MaxBoxes == 3

\* columns of the one-row feature map of the one head _postprocess decodes
\* under SpecDecode
MapWidth == 2

\* ------------------------------------------------------ program constants
\* class TrackState
New == 0
Tracked == 1
Lost == 2
Removed == 3

\* RKNN_YOLO.reg_num: the bins of one side of a box in the regression head
reg_num == 16

\* ByteTracker(track_thresh=0.5, match_thresh=0.8), in hundredths
track_thresh == 50
match_thresh == 80

\* RKNN_YOLO(nms_threshold=0.45), in hundredths
nms_thresh == 45

\* track_buffer values the tracker is constructed with
TrackBuffers == {1, 3}

\* ---------------------------------------------------------------- inputs
\* A detection as the decoder hands it over: the four corners of its box,
\* a score and a class id.  Det builds the one with the given tlwh.
Det(x, y, w, h, s) ==
    [pt1x |-> x,     pt1y |-> y,
     pt2x |-> x + w, pt2y |-> y,
     pt3x |-> x + w, pt3y |-> y + h,
     pt4x |-> x,     pt4y |-> y + h,
     score |-> s, classId |-> 0]

\* IoU((10,10,20,20),(12,12,20,20)) = 324/476 < 0.8
\* IoU((10,10,20,20),(11,10,20,20)) = 380/420 >= 0.8
\* IoU((12,12,20,20),(11,10,20,20)) = 342/458 < 0.8
Detections ==
    { Det(10, 10, 20, 20, 90), Det(12, 12, 20, 20, 90),
      Det(11, 10, 20, 20, 90), Det(10, 10, 20, 20, 30) }

\* detection lists of one frame under Spec: zero, one or two different
\* detections, in either order
DetectionLists ==
    {<<>>} \cup {<<d>> : d \in Detections}
           \cup {p \in Detections \X Detections : p[1] # p[2]}

\* detection lists of one frame under SpecLong: zero or one detection
SparseLists == {<<>>} \cup {<<d>> : d \in Detections}

\* detection lists of one frame under SpecCrowd: two objects whose boxes
\* overlap with IoU 380/420, the first seen with a high or a low score, or
\* a third object that overlaps the first with IoU 324/476
CrowdLists ==
    { <<>>,
      <<Det(12, 12, 20, 20, 90)>>,
      <<Det(10, 10, 20, 20, 90)>>,
      <<Det(10, 10, 20, 20, 30)>>,
      <<Det(11, 10, 20, 20, 90)>>,
      <<Det(10, 10, 20, 20, 90), Det(11, 10, 20, 20, 90)>>,
      <<Det(10, 10, 20, 20, 30), Det(11, 10, 20, 20, 90)>> }

\* a detection without corner attributes: its conversion raises
Malformed == [score |-> 90, classId |-> 0]

\* detections of SpecMalformed
MixedDetections ==
    { Det(10, 10, 20, 20, 90), Det(10, 10, 20, 20, 30), Malformed }

\* detection lists of one frame under SpecMalformed: up to two entries
MixedLists ==
    {<<>>} \cup {<<d>> : d \in MixedDetections}
           \cup (MixedDetections \X MixedDetections)

VARIABLES
    tracks,          \* arena of STrack objects, in order of activation
    tracked_tracks,  \* ByteTracker.tracked_tracks
    lost_tracks,     \* ByteTracker.lost_tracks
    removed_tracks,  \* ByteTracker.removed_tracks
    frame_id,        \* ByteTracker.frame_id
    max_time_lost,   \* ByteTracker.max_time_lost
    STrack_next_id,  \* STrack._next_id (class attribute)
    outputs,         \* the list returned by the last update call
    history,         \* the detection lists of the update calls so far
    call,            \* what the last operation did: for an update call the
                     \* pairs each stage matched, the tracks stage 2 was
                     \* offered, the tracks mark_lost ran on, the spawns
    lost_frame,      \* per track: the frame of the call in which it left
                     \* tracked_tracks for lost_tracks in state Lost, or 0
    running,         \* the local variables of the update call in progress
                     \* and the line it has reached (pc); pc is "idle"
                     \* between calls
    pure             \* the arguments of a call of one of the module-level
                     \* functions and, once it has returned, its result

vars == <<tracks, tracked_tracks, lost_tracks, removed_tracks, frame_id,
          max_time_lost, STrack_next_id, outputs, history, call, lost_frame,
          running, pure>>

\* ---------------------------------------------------------------- helpers
Max(a, b) == IF a >= b THEN a ELSE b
Min(a, b) == IF a <= b THEN a ELSE b
Min4(a, b, c, d) == Min(Min(a, b), Min(c, d))
Max4(a, b, c, d) == Max(Max(a, b), Max(c, d))

Range(s) == {s[i] : i \in DOMAIN s}

\* Python: x in s
In(x, s) == \E i \in DOMAIN s : s[i] = x

\* the elements of a set of integers in ascending order
RECURSIVE Ascending(_)
Ascending(S) ==
    IF S = {} THEN <<>>
    ELSE LET lo == CHOOSE x \in S : \A y \in S : x <= y
         IN  <<lo>> \o Ascending(S \ {lo})

\* ------------------------------------------------------------------ STrack
\* STrack.tlbr_to_tlwh
tlbr_to_tlwh(tlbr) ==
    <<tlbr[1], tlbr[2], tlbr[3] - tlbr[1], tlbr[4] - tlbr[2]>>

\* STrack.to_tlbr
to_tlbr(t) ==
    <<t.tlwh[1], t.tlwh[2], t.tlwh[1] + t.tlwh[3], t.tlwh[2] + t.tlwh[4]>>

\* STrack.to_tlwh
to_tlwh(t) == t.tlwh

\* A float is modelled as an exact fraction <<numerator, denominator>>; a
\* denominator 0 stands for the inf or nan of a division by zero, which
\* every product and difference hands on.
FracMul(p, q) == <<p[1] * q[1], p[2] * q[2]>>
FracSub(p, q) == <<p[1] * q[2] - q[1] * p[2], p[2] * q[2]>>
FracHalf(p) == <<p[1], 2 * p[2]>>
\* p == n for a fraction p and an integer n (false for inf and nan)
FracIs(p, n) == p[2] # 0 /\ p[1] = n * p[2]

\* a tlwh_to_xyah that takes the corner for the centre
tlwh_to_xyah_corner(tlwh) ==
    <<<<tlwh[1], 1>>, <<tlwh[2], 1>>, <<tlwh[3], tlwh[4]>>, <<tlwh[4], 1>>>>

\* STrack.tlwh_to_xyah: [x + w/2, y + h/2, w/h, h]
tlwh_to_xyah(tlwh) ==
    <<<<2 * tlwh[1] + tlwh[3], 2>>, <<2 * tlwh[2] + tlwh[4], 2>>,
      <<tlwh[3], tlwh[4]>>, <<tlwh[4], 1>>>>

\* STrack.__init__
STrack(tlwh, score, class_id) ==
    [tlwh |-> tlwh, score |-> score, class_id |-> class_id,
     tracklet_len |-> 0, is_activated |-> FALSE, state |-> New,
     track_id |-> 0, start_frame |-> 0, frame_id |-> 0, end_frame |-> 0,
     kf |-> [stage |-> "none"]]

\* whether the conversion of a detection runs through: reading a missing
\* attribute raises, and the except clause skips the detection
Converts(det) ==
    {"pt1x", "pt1y", "pt2x", "pt2y", "pt3x", "pt3y", "pt4x", "pt4y",
     "score", "classId"} \subseteq DOMAIN det

\* the conversion of one detection at the head of ByteTracker.update
ToSTrack(det) ==
    LET bbox == << Min4(det.pt1x, det.pt2x, det.pt3x, det.pt4x),
                   Min4(det.pt1y, det.pt2y, det.pt3y, det.pt4y),
                   Max4(det.pt1x, det.pt2x, det.pt3x, det.pt4x),
                   Max4(det.pt1y, det.pt2y, det.pt3y, det.pt4y) >>
    IN  STrack(tlbr_to_tlwh(bbox), det.score, det.classId)

\* a conversion loop that stops at the first detection that raises
RECURSIVE ConvertAll_stop(_)
ConvertAll_stop(detection_results) ==
    IF detection_results = <<>> \/ ~Converts(Head(detection_results))
    THEN <<>>
    ELSE <<ToSTrack(Head(detection_results))>>
            \o ConvertAll_stop(Tail(detection_results))

\* lines 482-502: "detections", the converted detections in input order,
\* without those whose conversion raised
ConvertAll(detection_results) ==
    LET ok == SelectSeq(detection_results, Converts)
    IN  [i \in DOMAIN ok |-> ToSTrack(ok[i])]

\* ----------------------------------------------------------- KalmanFilter
\* The filter's matrices are block diagonal: each of x, y, a, h is filtered
\* with its own velocity, independently of the others.  kf.mean is
\* mean[0:4], kf.vel is mean[4:8].  kf.cov is the block <<var(pos),
\* cov(pos, vel), var(vel)>> shared by x, y and h in units of h*h/25600 (h
\* is mean[3], which the predicts before the first update leave alone);
\* kf.cov_a is the block of a in units of 1e-10.
RECURSIVE Gcd(_, _)
Gcd(a, b) == IF b = 0 THEN a ELSE Gcd(b, a % b)

Abs(n) == IF n < 0 THEN -n ELSE n

\* a fraction in lowest terms
FracNorm(p) ==
    LET g == Gcd(Abs(p[1]), Abs(p[2]))
    IN  IF g = 0 THEN p ELSE <<p[1] \div g, p[2] \div g>>

FracAdd(p, q) == FracNorm(<<p[1] * q[2] + q[1] * p[2], p[2] * q[2]>>)

\* whether a measurement is four finite numbers with a height above zero
Measurable(measurement) ==
    /\ \A i \in 1..4 : measurement[i][2] # 0
    /\ measurement[4][1] > 0

\* KalmanFilter.initiate: std 2h/20 for the positions, 10h/160 for the
\* velocities, 1e-2 and 1e-5 for a
kalman_initiate(measurement) ==
    IF Measurable(measurement)
    THEN [stage |-> "initiated",
          mean |-> [i \in 1..4 |-> FracNorm(measurement[i])],
          vel |-> [i \in 1..4 |-> <<0, 1>>],
          cov |-> <<256, 0, 100>>,
          cov_a |-> <<1000000, 0, 1>>]
    ELSE [stage |-> "unmodelled"]

\* F P F^T + Q on one block
PredictCov(cov, q_pos, q_vel) ==
    <<cov[1] + 2 * cov[2] + cov[3] + q_pos, cov[2] + cov[3], cov[3] + q_vel>>

\* KalmanFilter.predict: std h/20 and h/160, 1e-2 and 1e-5 for a
kalman_predict(kf) ==
    CASE kf.stage = "initiated" ->
            [kf EXCEPT !.mean = [i \in 1..4 |-> FracAdd(kf.mean[i], kf.vel[i])],
                       !.cov = PredictCov(@, 64, 1),
                       !.cov_a = PredictCov(@, 1000000, 1)]
      [] kf.stage = "updated" ->
            [kf EXCEPT !.mean = [i \in 1..4 |-> FracAdd(kf.mean[i], kf.vel[i])]]
      [] OTHER -> kf

\* KalmanFilter.update: measurement std h/20, 1e-1 for a; the gain of a
\* block is <<var(pos), cov(pos, vel)>> / (var(pos) + r)
kalman_update(kf, measurement) ==
    IF kf.stage = "initiated" /\ Measurable(measurement)
    THEN LET block(i) == IF i = 3 THEN kf.cov_a ELSE kf.cov
             r(i) == IF i = 3 THEN 100000000 ELSE 64
             gain_pos(i) == FracNorm(<<block(i)[1], block(i)[1] + r(i)>>)
             gain_vel(i) == FracNorm(<<block(i)[2], block(i)[1] + r(i)>>)
             innovation(i) == FracNorm(FracSub(measurement[i], kf.mean[i]))
         IN  [stage |-> "updated",
              mean |-> [i \in 1..4 |->
                          FracAdd(kf.mean[i],
                                  FracNorm(FracMul(gain_pos(i), innovation(i))))],
              vel |-> [i \in 1..4 |->
                         FracAdd(kf.vel[i],
                                 FracNorm(FracMul(gain_vel(i), innovation(i))))]]
    ELSE [stage |-> "unmodelled"]

\* STrack.predict
predict(t) ==
    LET kf == IF t.state # Tracked /\ t.kf.stage \in {"initiated", "updated"}
              THEN [t.kf EXCEPT !.vel[4] = <<0, 1>>]
              ELSE t.kf
    IN  [t EXCEPT !.kf = kalman_predict(kf)]

\* STrack.update
update(t, new_track, frame) ==
    [t EXCEPT !.frame_id = frame,
              !.tracklet_len = @ + 1,
              !.tlwh = new_track.tlwh,
              !.score = new_track.score,
              !.class_id = new_track.class_id,
              !.state = Tracked,
              !.is_activated = TRUE,
              !.kf = kalman_update(@, tlwh_to_xyah(new_track.tlwh))]

\* a next_id that returns the counter without advancing it
next_id_stuck(n) == n

\* STrack.next_id: the value of STrack._next_id after the call, which is
\* also the value returned
next_id(n) == n + 1

\* an activate that does not ask for an id
activate_anonymous(t, id, frame) ==
    [t EXCEPT !.kf = kalman_initiate(tlwh_to_xyah(t.tlwh)),
              !.tracklet_len = 0,
              !.state = Tracked,
              !.is_activated = TRUE,
              !.frame_id = frame,
              !.start_frame = frame]

\* an activate that leaves the track unconfirmed
activate_unconfirmed(t, id, frame) ==
    [t EXCEPT !.track_id = id,
              !.kf = kalman_initiate(tlwh_to_xyah(t.tlwh)),
              !.tracklet_len = 0,
              !.state = Tracked,
              !.frame_id = frame,
              !.start_frame = frame]

\* STrack.activate; id is the value STrack.next_id() returned
activate(t, id, frame) ==
    [t EXCEPT !.track_id = id,
              !.kf = kalman_initiate(tlwh_to_xyah(t.tlwh)),
              !.tracklet_len = 0,
              !.state = Tracked,
              !.is_activated = TRUE,
              !.frame_id = frame,
              !.start_frame = frame]

\* STrack.mark_lost
mark_lost(t) == [t EXCEPT !.state = Lost, !.end_frame = t.frame_id]

\* a mark_removed that leaves is_activated as it is
mark_removed_state(t) == [t EXCEPT !.state = Removed]

\* STrack.mark_removed
mark_removed(t) == [t EXCEPT !.state = Removed, !.is_activated = FALSE]

\* --------------------------------------------------------------- iou_batch
\* an iou_batch whose union is the sum of the two areas
iou_batch_sum(a, b) ==
    LET w == Max(0, Min(a[3], b[3]) - Max(a[1], b[1]))
        h == Max(0, Min(a[4], b[4]) - Max(a[2], b[2]))
    IN  [intersection |-> w * h,
         union |-> (a[3] - a[1]) * (a[4] - a[2])
                      + (b[3] - b[1]) * (b[4] - b[2])]

\* one cell of iou_batch: the intersection and the union of two tlbr boxes
iou_batch(a, b) ==
    LET tlx == Max(a[1], b[1])
        tly == Max(a[2], b[2])
        brx == Min(a[3], b[3])
        bry == Min(a[4], b[4])
        w == Max(0, brx - tlx)
        h == Max(0, bry - tly)
        intersection == w * h
        a_area == (a[3] - a[1]) * (a[4] - a[2])
        b_area == (b[3] - b[1]) * (b[4] - b[2])
    IN  [intersection |-> intersection,
         union |-> a_area + b_area - intersection]

\* intersection / max(union, 1e-10), in millionths (the solver's objective)
IouValue(p) ==
    IF p.union <= 0 THEN 0 ELSE (p.intersection * 1000000) \div p.union

\* match_thresh read as the largest accepted cost 1 - IoU
AboveMatchThresh_cost(p) ==
    /\ p.union > 0
    /\ (p.union - p.intersection) * 100 <= match_thresh * p.union

\* iou_matrix[row, col] >= self.match_thresh, decided exactly
AboveMatchThresh(p) ==
    /\ p.union > 0
    /\ p.intersection * 100 >= match_thresh * p.union

\* the IoU matrix of a list of tracks (rows) and a list of detections (cols)
IouMatrix(rows, cols) ==
    [r \in DOMAIN rows |->
        [c \in DOMAIN cols |-> iou_batch(to_tlbr(rows[r]), to_tlbr(cols[c]))]]

\* ------------------------------------------------- linear_sum_assignment
\* An assignment is a function from the assigned rows to their columns.
RECURSIVE TotalIou(_, _, _)
TotalIou(m, f, S) ==
    IF S = {} THEN 0
    ELSE LET r == CHOOSE x \in S : TRUE
         IN  IouValue(m[r][f[r]]) + TotalIou(m, f, S \ {r})

Assignments(n, k) ==
    LET size == Min(n, k)
    IN  UNION { { f \in [R -> 1..k] :
                    \A r1 \in R, r2 \in R : r1 # r2 => f[r1] # f[r2] } :
                R \in {S \in SUBSET (1..n) : Cardinality(S) = size} }

\* scipy's linear_sum_assignment(-iou_matrix): a complete assignment of the
\* smaller side with the largest total IoU.  Which one of several optimal
\* assignments the solver returns is left open.
linear_sum_assignment(m, n, k) ==
    LET all == Assignments(n, k)
    IN  { f \in all : \A g \in all :
            TotalIou(m, g, DOMAIN g) <= TotalIou(m, f, DOMAIN f) }

\* a filter that lets every pair of the solver through
Matches_all(m, f) ==
    LET rows == Ascending(DOMAIN f)
    IN  [i \in DOMAIN rows |-> <<rows[i], f[rows[i]]>>]

\* "matches": the solver's pairs that pass the IoU threshold, in row order
Matches(m, f) ==
    LET ok == {r \in DOMAIN f : AboveMatchThresh(m[r][f[r]])}
        rows == Ascending(ok)
    IN  [i \in DOMAIN rows |-> <<rows[i], f[rows[i]]>>]


\* ------------------------------------------------------ ByteTracker.update
\* "for row, col in matches: track.update(det, self.frame_id)", in order;
\* pairs is a list of <<track object, detection>>
RECURSIVE UpdateEach(_, _, _)
UpdateEach(trks, pairs, frame) ==
    IF pairs = <<>> THEN trks
    ELSE LET p == Head(pairs)
         IN  UpdateEach([trks EXCEPT ![p[1]] = update(@, p[2], frame)],
                        Tail(pairs), frame)

\* "for track in ...: track.predict()", in order; objs is a list of track
\* objects, and an object listed twice is predicted twice
RECURSIVE PredictEach(_, _)
PredictEach(trks, objs) ==
    IF objs = <<>> THEN trks
    ELSE PredictEach([trks EXCEPT ![Head(objs)] = predict(@)], Tail(objs))

\* "track.mark_lost()" on every object of the list objs
MarkLostEach(trks, objs) ==
    [i \in DOMAIN trks |-> IF In(i, objs) THEN mark_lost(trks[i]) ELSE trks[i]]

\* "track.mark_removed()" on every object of the list objs
MarkRemovedEach(trks, objs) ==
    [i \in DOMAIN trks |->
        IF In(i, objs) THEN mark_removed(trks[i]) ELSE trks[i]]

\* [i for i in range(n) if i not in [m[0] for m in matches]]
UnmatchedRows(n, matches) ==
    Ascending({r \in 1..n : \A i \in DOMAIN matches : matches[i][1] # r})

\* an unmatched-column scan that stops one column short
UnmatchedCols_short(k, matches) ==
    Ascending({c \in 1..(k - 1) :
                  \A i \in DOMAIN matches : matches[i][2] # c})

\* [i for i in range(k) if i not in [m[1] for m in matches]]
UnmatchedCols(k, matches) ==
    Ascending({c \in 1..k : \A i \in DOMAIN matches : matches[i][2] # c})

\* the solver's possible results for a stage, <<>> when the stage is skipped
Solve(trks, rows, cols) ==
    IF Len(rows) > 0 /\ Len(cols) > 0
    THEN linear_sum_assignment(
             IouMatrix([i \in DOMAIN rows |-> trks[rows[i]]], cols),
             Len(rows), Len(cols))
    ELSE {<<>>}

\* The state of one update call between its stages:
\*   trks       the arena with the attribute changes made so far
\*   activated  activated_tracks      lost     lost_tracks (local)
\*   removed    removed_tracks (local)
\*   unmatched_tracks, unmatched_detections   as left by stage 1
\*   next       STrack._next_id
\* and, for the record of the call kept in `call`:
\*   m1, m3     the pairs <<track, column of high>> updated by stage 1 and
\*              by the unconfirmed pass
\*   rows2, m2  the tracks offered to stage 2 and the pairs
\*              <<track, column of low>> it updated
\*   spawned    the pairs <<column of high, new track>> of the spawn loop
\*   predicted  the objects predict() was called on, in order of the calls
\*   boxes1     the to_tlbr() boxes of the rows of stage 1
\* The two predict loops of lines 515-519 have run.
BeginCall(trks, tracked, lost, next) ==
    [trks |-> PredictEach(trks, tracked \o lost),
     activated |-> <<>>, lost |-> lost, removed |-> <<>>,
     unmatched_tracks |-> <<>>, unmatched_detections |-> <<>>, next |-> next,
     m1 |-> <<>>, rows2 |-> <<>>, m2 |-> <<>>, m3 |-> <<>>, spawned |-> <<>>,
     predicted |-> tracked \o lost,
     boxes1 |-> [i \in DOMAIN tracked |->
                   to_tlbr(PredictEach(trks, tracked \o lost)[tracked[i]])]]

\* the confirmed tracks offered to stage 1: self.tracked_tracks, activated
ConfirmedOf(trks, tracked) ==
    LET Test(t) == trks[t].is_activated IN SelectSeq(tracked, Test)

\* unconfirmed_tracks
UnconfirmedOf(trks, tracked) ==
    LET Test(t) == ~trks[t].is_activated IN SelectSeq(tracked, Test)

\* a score test that every score passes
IsHigh_any(d) == d.score >= 0

\* d.score >= self.track_thresh (lines 522 and 649; negated on line 562)
IsHigh(d) == d.score >= track_thresh

\* high_score_detections
HighOf(detections) == SelectSeq(detections, IsHigh)

\* low_score_detections
LowOf(detections) ==
    LET Test(d) == ~IsHigh(d) IN SelectSeq(detections, Test)

\* stage 1 (lines 521-559): confirmed tracks against high-score detections
Stage1(c, tracked, high, frame, f) ==
    IF Len(tracked) > 0 /\ Len(high) > 0
    THEN LET m == IouMatrix([i \in DOMAIN tracked |-> c.trks[tracked[i]]], high)
             matches == Matches(m, f)
             um == UnmatchedRows(Len(tracked), matches)
             ud == UnmatchedCols(Len(high), matches)
             pairs == [i \in DOMAIN matches |->
                          <<tracked[matches[i][1]], high[matches[i][2]]>>]
             lostNow == [i \in DOMAIN um |-> tracked[um[i]]]
         IN  [c EXCEPT
                !.trks = MarkLostEach(UpdateEach(@, pairs, frame), lostNow),
                !.activated = @ \o [i \in DOMAIN pairs |-> pairs[i][1]],
                !.lost = @ \o lostNow,
                !.unmatched_tracks = um,
                !.unmatched_detections = ud,
                !.m1 = [i \in DOMAIN matches |->
                           <<tracked[matches[i][1]], matches[i][2]>>]]
    ELSE [c EXCEPT
            !.unmatched_tracks = [i \in 1..Len(tracked) |-> i],
            !.unmatched_detections = [i \in 1..Len(high) |-> i]]

\* the tracks stage 2 is offered: tracked_tracks[i] for i in unmatched_tracks
Stage2Rows(c, tracked) ==
    [i \in DOMAIN c.unmatched_tracks |-> tracked[c.unmatched_tracks[i]]]

\* stage 2 (lines 561-600): stage 1's unmatched tracks against low scores
Stage2(c, tracked, low, frame, f) ==
    LET rows == Stage2Rows(c, tracked)
    IN  IF Len(rows) > 0 /\ Len(low) > 0
        THEN LET m == IouMatrix([i \in DOMAIN rows |-> c.trks[rows[i]]], low)
                 matches == Matches(m, f)
                 um == UnmatchedRows(Len(rows), matches)
                 pairs == [i \in DOMAIN matches |->
                              <<rows[matches[i][1]], low[matches[i][2]]>>]
                 lostNow == [i \in DOMAIN um |-> rows[um[i]]]
             IN  [c EXCEPT
                    !.trks = MarkLostEach(UpdateEach(@, pairs, frame), lostNow),
                    !.activated = @ \o [i \in DOMAIN pairs |-> pairs[i][1]],
                    !.lost = @ \o lostNow,
                    !.rows2 = rows,
                    !.m2 = [i \in DOMAIN matches |->
                               <<rows[matches[i][1]], matches[i][2]>>]]
        ELSE [c EXCEPT !.trks = MarkLostEach(@, rows), !.lost = @ \o rows,
                       !.rows2 = rows]

\* the unconfirmed pass (lines 602-638): against all high-score detections
Stage3(c, unconfirmed, high, frame, f) ==
    IF Len(unconfirmed) > 0 /\ Len(high) > 0
    THEN LET m == IouMatrix(
                    [i \in DOMAIN unconfirmed |-> c.trks[unconfirmed[i]]], high)
             matches == Matches(m, f)
             um == UnmatchedRows(Len(unconfirmed), matches)
             pairs == [i \in DOMAIN matches |->
                          <<unconfirmed[matches[i][1]], high[matches[i][2]]>>]
             gone == [i \in DOMAIN um |-> unconfirmed[um[i]]]
         IN  [c EXCEPT
                !.trks = MarkRemovedEach(UpdateEach(@, pairs, frame), gone),
                !.activated = @ \o [i \in DOMAIN pairs |-> pairs[i][1]],
                !.removed = @ \o gone,
                !.m3 = [i \in DOMAIN matches |->
                           <<unconfirmed[matches[i][1]], matches[i][2]>>]]
    ELSE [c EXCEPT !.trks = MarkRemovedEach(@, unconfirmed),
                   !.removed = @ \o unconfirmed]

\* an eviction test that fires one frame early
TimedOut_early(t, frame, buffer) == frame - t.end_frame >= buffer

\* an eviction test that fires one frame late
TimedOut_late(t, frame, buffer) == frame - t.end_frame > buffer + 1

\* self.frame_id - track.end_frame > self.max_time_lost
TimedOut(t, frame, buffer) == frame - t.end_frame > buffer

\* eviction (lines 640-644), over self.lost_tracks as it was at the call
Evict(c, old_lost, frame, buffer) ==
    LET Test(t) == TimedOut(c.trks[t], frame, buffer)
        gone == SelectSeq(old_lost, Test)
    IN  [c EXCEPT !.trks = MarkRemovedEach(@, gone), !.removed = @ \o gone]

\* whether a detection left unmatched by stage 1 starts a track (line 649)
Spawns(det) == IsHigh(det)

\* spawn (lines 646-651): one new object per unmatched high-score detection
RECURSIVE Spawn(_, _, _, _)
Spawn(c, high, todo, frame) ==
    IF todo = <<>> THEN c
    ELSE LET det == high[Head(todo)]
         IN  IF Spawns(det)
             THEN Spawn([c EXCEPT
                           !.trks = Append(@, activate(det, next_id(c.next),
                                                       frame)),
                           !.activated = Append(@, Len(c.trks) + 1),
                           !.next = next_id(@),
                           !.spawned = Append(@, <<Head(todo),
                                                   Len(c.trks) + 1>>)],
                        high, Tail(todo), frame)
             ELSE Spawn(c, high, Tail(todo), frame)

\* lines 654-656: old lost tracks missing from both local lists are kept
RECURSIVE KeepLost(_, _, _)
KeepLost(lost, removed, old_lost) ==
    IF old_lost = <<>> THEN lost
    ELSE LET t == Head(old_lost)
         IN  IF ~In(t, lost) /\ ~In(t, removed)
             THEN KeepLost(Append(lost, t), removed, Tail(old_lost))
             ELSE KeepLost(lost, removed, Tail(old_lost))

\* lines 658-659: the new self.tracked_tracks
NewTracked(tracked, lost, removed, activated) ==
    LET Test(t) == ~In(t, lost) /\ ~In(t, removed)
    IN  SelectSeq(tracked, Test) \o activated

\* the tracks the result list has an entry for, in order (lines 665-666)
Emitted(trks, tracked) ==
    LET Test(t) == trks[t].is_activated IN SelectSeq(tracked, Test)

\* lines 664-673: the result list
Outputs(trks, tracked) ==
    LET e == Emitted(trks, tracked)
    IN  [i \in DOMAIN e |->
            [track_id |-> trks[e[i]].track_id,
             class_id |-> trks[e[i]].class_id,
             score |-> trks[e[i]].score,
             bbox |-> to_tlwh(trks[e[i]])]]

\* the history of lost_frame after a call (see VARIABLES)
LostFrame(trks, old_tracked, new_tracked, lost, frame, before) ==
    [i \in DOMAIN trks |->
        IF /\ In(i, old_tracked)
           /\ ~In(i, new_tracked)
           /\ In(i, lost)
           /\ trks[i].state = Lost
        THEN frame
        ELSE IF i \in DOMAIN before THEN before[i] ELSE 0]

\* the record of an update call kept in `call`
CallRecord(c, high, low, old_lost) ==
    [op |-> "update", high |-> high, low |-> low,
     m1 |-> c.m1, rows2 |-> c.rows2, m2 |-> c.m2, m3 |-> c.m3,
     spawned |-> c.spawned, predicted |-> c.predicted, boxes1 |-> c.boxes1,
     marked_lost |-> SubSeq(c.lost, Len(old_lost) + 1, Len(c.lost))]

\* ByteTracker.update(detection_results): the tracker and the class counter
UpdateTracker(detection_results) ==
    LET frame == frame_id + 1
        detections == ConvertAll(detection_results)
    IN  \E tracked \in {ConfirmedOf(tracks, tracked_tracks)},
           unconfirmed \in {UnconfirmedOf(tracks, tracked_tracks)},
           high \in {HighOf(detections)},
           low \in {LowOf(detections)} :
        \E c0 \in {BeginCall(tracks, tracked, lost_tracks, STrack_next_id)} :
        \E f1 \in Solve(c0.trks, tracked, high) :
        \E c1 \in {Stage1(c0, tracked, high, frame, f1)} :
        \E f2 \in Solve(c1.trks, Stage2Rows(c1, tracked), low) :
        \E c2 \in {Stage2(c1, tracked, low, frame, f2)} :
        \E f3 \in Solve(c2.trks, unconfirmed, high) :
        \E c3 \in {Stage3(c2, unconfirmed, high, frame, f3)} :
        \E c4 \in {Evict(c3, lost_tracks, frame, max_time_lost)} :
        \E c5 \in {Spawn(c4, high, c4.unmatched_detections, frame)} :
        \E lost \in {KeepLost(c5.lost, c5.removed, lost_tracks)} :
        \E new_tracked \in {NewTracked(tracked_tracks, lost,
                                       c5.removed, c5.activated)} :
            /\ frame_id' = frame
            /\ tracks' = c5.trks
            /\ STrack_next_id' = c5.next
            /\ tracked_tracks' = new_tracked
            /\ lost_tracks' = lost
            /\ removed_tracks' = c5.removed
            /\ outputs' = Outputs(c5.trks, new_tracked)
            /\ call' = CallRecord(c5, high, low, lost_tracks)
            /\ lost_frame' = LostFrame(c5.trks, tracked_tracks, new_tracked,
                                       lost, frame, lost_frame)
            /\ UNCHANGED <<max_time_lost, running>>

\* ByteTracker.update(detection_results): everything but the history
UpdateCore(detection_results) ==
    /\ UpdateTracker(detection_results)
    /\ UNCHANGED pure

\* ByteTracker.update(detection_results)
Update(detection_results) ==
    /\ UpdateCore(detection_results)
    /\ history' = Append(history, detection_results)

\* --------------------------------------------- update, statement by statement
\* What a reader of the tracker sees: the three lists and the state of
\* every track they hold.
Visible(trks, tracked, lost, removed) ==
    [tracked |-> tracked, lost |-> lost, removed |-> removed,
     state |-> [t \in Range(tracked) \cup Range(lost) \cup Range(removed)
                   |-> trks[t].state]]

\* the update call moves on to the line `pc` with the local state c; the
\* objects of the arena are changed in place
Proceed(pc, c) ==
    /\ tracks' = c.trks
    /\ running' = [running EXCEPT
                      !.pc = pc, !.c = c,
                      !.seen = @ \cup {Visible(c.trks, tracked_tracks,
                                               lost_tracks, removed_tracks)}]

\* lines 475-519: frame_id += 1, the empty local lists, the conversion of
\* the detections, tracked_tracks / unconfirmed_tracks / lost_tracks
BeginUpdate(detection_results) ==
    /\ running.pc = "idle"
    /\ frame_id' = frame_id + 1
    /\ history' = Append(history, detection_results)
    /\ LET detections == ConvertAll(detection_results)
           tracked == ConfirmedOf(tracks, tracked_tracks)
           c == BeginCall(tracks, tracked, lost_tracks, STrack_next_id)
       IN  /\ tracks' = c.trks
           /\ running' =
                 [pc |-> "stage1",
                  tracked |-> tracked,
                  unconfirmed |-> UnconfirmedOf(tracks, tracked_tracks),
                  high |-> HighOf(detections),
                  low |-> LowOf(detections),
                  c |-> c,
                  old_tracked |-> tracked_tracks,
                  lost |-> <<>>,
                  before |-> Visible(tracks, tracked_tracks, lost_tracks,
                                     removed_tracks),
                  seen |-> {}]
    /\ UNCHANGED <<pure, tracked_tracks, lost_tracks, removed_tracks,
                   max_time_lost, STrack_next_id, outputs, call, lost_frame>>

\* lines 521-559
StepStage1 ==
    /\ running.pc = "stage1"
    /\ \E f \in Solve(tracks, running.tracked, running.high) :
          Proceed("stage2", Stage1(running.c, running.tracked, running.high,
                                   frame_id, f))
    /\ UNCHANGED <<pure, tracked_tracks, lost_tracks, removed_tracks, frame_id,
                   max_time_lost, STrack_next_id, outputs, history, call,
                   lost_frame>>

\* lines 561-600
StepStage2 ==
    /\ running.pc = "stage2"
    /\ \E f \in Solve(tracks, Stage2Rows(running.c, running.tracked),
                      running.low) :
          Proceed("stage3", Stage2(running.c, running.tracked, running.low,
                                   frame_id, f))
    /\ UNCHANGED <<pure, tracked_tracks, lost_tracks, removed_tracks, frame_id,
                   max_time_lost, STrack_next_id, outputs, history, call,
                   lost_frame>>

\* lines 602-638
StepStage3 ==
    /\ running.pc = "stage3"
    /\ \E f \in Solve(tracks, running.unconfirmed, running.high) :
          Proceed("evict", Stage3(running.c, running.unconfirmed,
                                  running.high, frame_id, f))
    /\ UNCHANGED <<pure, tracked_tracks, lost_tracks, removed_tracks, frame_id,
                   max_time_lost, STrack_next_id, outputs, history, call,
                   lost_frame>>

\* lines 640-644
StepEvict ==
    /\ running.pc = "evict"
    /\ Proceed("spawn", Evict(running.c, lost_tracks, frame_id,
                              max_time_lost))
    /\ UNCHANGED <<pure, tracked_tracks, lost_tracks, removed_tracks, frame_id,
                   max_time_lost, STrack_next_id, outputs, history, call,
                   lost_frame>>

\* lines 646-651
StepSpawn ==
    /\ running.pc = "spawn"
    /\ \E c \in {Spawn(running.c, running.high,
                       running.c.unmatched_detections, frame_id)} :
          /\ Proceed("tracked", c)
          /\ STrack_next_id' = c.next
    /\ UNCHANGED <<pure, tracked_tracks, lost_tracks, removed_tracks, frame_id,
                   max_time_lost, outputs, history, call, lost_frame>>

\* lines 654-659: the local lost_tracks is completed and
\* self.tracked_tracks is rebuilt and extended
StepTracked ==
    /\ running.pc = "tracked"
    /\ \E lost \in {KeepLost(running.c.lost, running.c.removed,
                             lost_tracks)} :
       \E new_tracked \in {NewTracked(tracked_tracks, lost,
                                      running.c.removed,
                                      running.c.activated)} :
          /\ tracked_tracks' = new_tracked
          /\ running' = [running EXCEPT
                            !.pc = "lost",
                            !.lost = lost,
                            !.seen = @ \cup {Visible(tracks, new_tracked,
                                                     lost_tracks,
                                                     removed_tracks)}]
    /\ UNCHANGED <<pure, tracks, lost_tracks, removed_tracks, frame_id,
                   max_time_lost, STrack_next_id, outputs, history, call,
                   lost_frame>>

\* lines 660-673: self.lost_tracks and self.removed_tracks are assigned,
\* the result list is built and returned
StepReturn ==
    /\ running.pc = "lost"
    /\ lost_tracks' = running.lost
    /\ removed_tracks' = running.c.removed
    /\ outputs' = Outputs(tracks, tracked_tracks)
    /\ call' = CallRecord(running.c, running.high, running.low,
                          lost_tracks)
    /\ lost_frame' = LostFrame(tracks, running.old_tracked, tracked_tracks,
                               running.lost, frame_id, lost_frame)
    /\ running' = [pc |-> "idle", before |-> running.before,
                   seen |-> running.seen]
    /\ UNCHANGED <<pure, tracks, tracked_tracks, frame_id, max_time_lost,
                   STrack_next_id, history>>

\* an exception raised between two statements of update leaves the call:
\* update has no try/finally, so nothing is undone
Abandon ==
    /\ running.pc \notin {"idle", "stage1"}
    /\ running' = [pc |-> "idle", abandoned |-> running.pc,
                   before |-> running.before, seen |-> running.seen]
    /\ UNCHANGED <<pure, tracks, tracked_tracks, lost_tracks, removed_tracks,
                   frame_id, max_time_lost, STrack_next_id, outputs,
                   history, call, lost_frame>>

\* a reset that leaves the id allocator alone
Reset_keep_ids ==
    /\ tracked_tracks' = <<>>
    /\ lost_tracks' = <<>>
    /\ removed_tracks' = <<>>
    /\ frame_id' = 0
    /\ tracks' = <<>>
    /\ lost_frame' = <<>>
    /\ history' = <<>>
    /\ outputs' = <<>>
    /\ call' = [op |-> "reset", frame_id |-> frame_id,
                next_id |-> STrack_next_id]
    /\ UNCHANGED <<pure, max_time_lost, STrack_next_id, running>>

\* ByteTracker.reset
Reset ==
    /\ tracked_tracks' = <<>>
    /\ lost_tracks' = <<>>
    /\ removed_tracks' = <<>>
    /\ frame_id' = 0
    /\ STrack_next_id' = 0
    \* the objects of the cleared lists are unreachable from here on
    /\ tracks' = <<>>
    /\ lost_frame' = <<>>
    /\ history' = <<>>
    /\ outputs' = <<>>
    \* the record: the frame counter and the id allocator before the reset
    /\ call' = [op |-> "reset", frame_id |-> frame_id,
                next_id |-> STrack_next_id]
    /\ UNCHANGED <<pure, max_time_lost, running>>

\* ByteTracker.__init__, with STrack._next_id as the class defines it
InitTracker ==
    /\ tracks = <<>>
    /\ tracked_tracks = <<>>
    /\ lost_tracks = <<>>
    /\ removed_tracks = <<>>
    /\ frame_id = 0
    /\ max_time_lost \in TrackBuffers
    /\ STrack_next_id = 0
    /\ outputs = <<>>
    /\ history = <<>>
    /\ call = [op |-> "init"]
    /\ running = [pc |-> "idle"]
    /\ lost_frame = <<>>

\* a new tracker, and no module-level function called
Init == InitTracker /\ pure = [fn |-> "none"]

\* one frame with any detection list
Frame == \E dets \in DetectionLists : frame_id < MaxFrame /\ Update(dets)

\* one frame with at most one detection
SparseFrame ==
    \E dets \in SparseLists : frame_id < MaxFrameLong /\ Update(dets)

Next == Frame \/ Reset

Spec == Init /\ [][Next]_vars

NextLong == SparseFrame \/ Reset

SpecLong == Init /\ [][NextLong]_vars

\* one frame with a detection list that may hold malformed entries
MixedFrame == \E dets \in MixedLists : frame_id < MaxFrame /\ Update(dets)

NextMalformed == MixedFrame \/ Reset

SpecMalformed == Init /\ [][NextMalformed]_vars

\* one frame with two overlapping objects
CrowdFrame ==
    \E dets \in CrowdLists : frame_id < MaxFrameCrowd /\ Update(dets)

NextCrowd == CrowdFrame \/ Reset

SpecCrowd == Init /\ [][NextCrowd]_vars

\* Another ByteTracker of the same process.  Its lists are its own; what it
\* shares with this tracker is the class attribute STrack._next_id.
\* Its update activates n new tracks (lines 646-651, STrack.next_id):
OtherUpdate ==
    /\ \E n \in 1..2 :
          /\ STrack_next_id + n <= MaxNextId
          /\ STrack_next_id' = STrack_next_id + n
    /\ UNCHANGED <<tracks, tracked_tracks, lost_tracks, removed_tracks,
                   frame_id, max_time_lost, outputs, history, call,
                   lost_frame, running, pure>>

\* its reset (line 681)
OtherReset ==
    /\ STrack_next_id' = 0
    /\ UNCHANGED <<tracks, tracked_tracks, lost_tracks, removed_tracks,
                   frame_id, max_time_lost, outputs, history, call,
                   lost_frame, running, pure>>

\* one frame of this tracker
SharedFrame ==
    \E dets \in CrowdLists : frame_id < MaxFrameShared /\ Update(dets)

NextShared == SharedFrame \/ Reset \/ OtherUpdate \/ OtherReset

SpecShared == Init /\ [][NextShared]_vars

\* one frame, statement by statement, with zero or one detection
StepFrame ==
    \E dets \in SparseLists : frame_id < MaxFrame /\ BeginUpdate(dets)

NextSteps ==
    \/ StepFrame
    \/ StepStage1
    \/ StepStage2
    \/ StepStage3
    \/ StepEvict
    \/ StepSpawn
    \/ StepTracked
    \/ StepReturn
    \/ Abandon

SpecSteps == Init /\ [][NextSteps]_vars

\* the tracker as Init leaves it, with `pure` holding the arguments p
InitPure(p) == InitTracker /\ pure = p

\* ------------------------------------------- RKNN_YOLO.detect_and_track
\* The detector's side of the tracker: `pure` holds with_tracking, the
\* number of calls made, and the argument and the result of the last call.
\* detect() is the inference on the NPU; its result, the list
\* detection_boxes, is the input here.  Of each entry of the result the
\* fields track_id, class_id and score are kept; which detection box
\* detect_box refers to is left out.

\* an early return that is never taken
SkipsTracker_never(detection_boxes) == FALSE

\* len(detection_boxes) == 0 (line 344)
SkipsTracker(detection_boxes) == Len(detection_boxes) = 0

\* RKNN_YOLO.__init__ (lines 60-61): a new tracker, tracking enabled
InitPipeline ==
    InitPure([fn |-> "detect_and_track", with_tracking |-> TRUE, calls |-> 0,
              op |-> "init", detection_boxes |-> <<>>, result |-> <<>>])

\* RKNN_YOLO.detect_and_track(image), from the result of self.detect(image)
detect_and_track(detection_boxes) ==
    /\ pure.fn = "detect_and_track"
    /\ pure.calls < MaxCalls
    /\ IF ~pure.with_tracking
       THEN /\ pure' = [pure EXCEPT
                          !.calls = @ + 1,
                          !.op = "detect_and_track",
                          !.detection_boxes = detection_boxes,
                          !.result = [i \in DOMAIN detection_boxes |->
                                        [track_id |-> -1,
                                         class_id |-> detection_boxes[i].classId,
                                         score |-> detection_boxes[i].score]]]
            /\ UNCHANGED <<tracks, tracked_tracks, lost_tracks,
                           removed_tracks, frame_id, max_time_lost,
                           STrack_next_id, outputs, history, call,
                           lost_frame, running>>
       ELSE IF SkipsTracker(detection_boxes)
       THEN /\ pure' = [pure EXCEPT
                          !.calls = @ + 1,
                          !.op = "detect_and_track",
                          !.detection_boxes = detection_boxes,
                          !.result = <<>>]
            /\ UNCHANGED <<tracks, tracked_tracks, lost_tracks,
                           removed_tracks, frame_id, max_time_lost,
                           STrack_next_id, outputs, history, call,
                           lost_frame, running>>
       ELSE /\ UpdateTracker(detection_boxes)
            /\ history' = Append(history, detection_boxes)
            /\ pure' = [pure EXCEPT
                          !.calls = @ + 1,
                          !.op = "detect_and_track",
                          !.detection_boxes = detection_boxes,
                          !.result = [i \in DOMAIN outputs' |->
                                        [track_id |-> outputs'[i].track_id,
                                         class_id |-> outputs'[i].class_id,
                                         score |-> outputs'[i].score]]]

\* RKNN_YOLO.enable_tracking(enable)
enable_tracking(enable) ==
    /\ pure.fn = "detect_and_track"
    /\ pure.calls < MaxCalls
    /\ pure' = [pure EXCEPT !.calls = @ + 1, !.op = "enable_tracking",
                            !.with_tracking = enable]
    /\ IF enable
       THEN /\ tracked_tracks' = <<>>
            /\ lost_tracks' = <<>>
            /\ removed_tracks' = <<>>
            /\ frame_id' = 0
            /\ STrack_next_id' = 0
            /\ tracks' = <<>>
            /\ lost_frame' = <<>>
            /\ history' = <<>>
            /\ outputs' = <<>>
            /\ call' = [op |-> "reset", frame_id |-> frame_id,
                        next_id |-> STrack_next_id]
            /\ UNCHANGED <<max_time_lost, running>>
       ELSE UNCHANGED <<tracks, tracked_tracks, lost_tracks, removed_tracks,
                        frame_id, max_time_lost, STrack_next_id, outputs,
                        history, call, lost_frame, running>>

\* a frame with zero or one detection
PipelineFrame == \E dets \in SparseLists : detect_and_track(dets)

PipelineSwitch == \E enable \in BOOLEAN : enable_tracking(enable)

NextPipeline == PipelineFrame \/ PipelineSwitch

SpecPipeline == InitPipeline /\ [][NextPipeline]_vars

\* ------------------------------------------------- the pure functions

\* axis-aligned boxes [x1, y1, x2, y2] with x1 <= x2 and y1 <= y2
Boxes ==
    {b \in (0..MaxCoord) \X (0..MaxCoord) \X (0..MaxCoord) \X (0..MaxCoord) :
        b[1] <= b[3] /\ b[2] <= b[4]}

InitIou ==
    \E a \in Boxes, b \in Boxes :
        InitPure([fn |-> "iou_batch", a |-> a, b |-> b, done |-> FALSE])

\* iou_batch on (a, b), on (b, a) and on (a, a)
ApplyIou ==
    /\ pure.fn = "iou_batch"
    /\ ~pure.done
    /\ pure' = [fn |-> "iou_batch", a |-> pure.a, b |-> pure.b,
                done |-> TRUE,
                ab |-> iou_batch(pure.a, pure.b),
                ba |-> iou_batch(pure.b, pure.a),
                aa |-> iou_batch(pure.a, pure.a)]
    /\ UNCHANGED <<tracks, tracked_tracks, lost_tracks, removed_tracks,
                   frame_id, max_time_lost, STrack_next_id, outputs,
                   history, call, lost_frame, running>>

SpecIou == InitIou /\ [][ApplyIou]_vars

\* boxes (x, y, w, h) with w >= 0 and h >= 0
TlwhBoxes ==
    (0..MaxCoord) \X (0..MaxCoord) \X (0..MaxCoord) \X (0..MaxCoord)

InitBox ==
    \E b \in TlwhBoxes : InitPure([fn |-> "box", tlwh |-> b, done |-> FALSE])

\* to_tlbr of a track with the box, tlbr_to_tlwh of the result, and
\* tlwh_to_xyah of the box
ApplyBox ==
    /\ pure.fn = "box"
    /\ ~pure.done
    /\ \E tlbr \in {to_tlbr(STrack(pure.tlwh, 0, 0))} :
          pure' = [fn |-> "box", tlwh |-> pure.tlwh, done |-> TRUE,
                   tlbr |-> tlbr,
                   back |-> tlbr_to_tlwh(tlbr),
                   xyah |-> tlwh_to_xyah(pure.tlwh)]
    /\ UNCHANGED <<tracks, tracked_tracks, lost_tracks, removed_tracks,
                   frame_id, max_time_lost, STrack_next_id, outputs,
                   history, call, lost_frame, running>>

SpecBox == InitBox /\ [][ApplyBox]_vars

\* ------------------------------------------------------------ _nms_rotated
\* a sort that puts the later of two boxes of equal score first
RECURSIVE SortedByScore_unstable(_, _)
SortedByScore_unstable(boxes, todo) ==
    IF todo = {} THEN <<>>
    ELSE LET first == CHOOSE i \in todo :
                         \A j \in todo :
                            \/ boxes[i].score > boxes[j].score
                            \/ (boxes[i].score = boxes[j].score /\ i >= j)
         IN  <<first>> \o SortedByScore_unstable(boxes, todo \ {first})

\* sorted(boxes, key=lambda x: x.score, reverse=True), as the list of the
\* positions in boxes: descending score, equal scores in input order
RECURSIVE SortedByScore(_, _)
SortedByScore(boxes, todo) ==
    IF todo = {} THEN <<>>
    ELSE LET first == CHOOSE i \in todo :
                         \A j \in todo :
                            \/ boxes[i].score > boxes[j].score
                            \/ (boxes[i].score = boxes[j].score /\ i <= j)
         IN  <<first>> \o SortedByScore(boxes, todo \ {first})

\* self._probiou(a, b) for the boxes at positions a and b, as given
ProbIou(ious, a, b) == ious[<<Min(a, b), Max(a, b)>>]

\* a comparison that also suppresses at the threshold
Suppresses_ge(iou, thresh) == iou >= thresh

\* ious > nms_thresh (line 142)
Suppresses(iou, thresh) == iou > thresh

\* the loop of lines 137-143 from position i of sort_boxes on: cls is the
\* classId of every box (changed in place), pred is pred_boxes
RECURSIVE NmsLoop(_, _, _, _, _, _)
NmsLoop(sort_boxes, ious, thresh, i, cls, pred) ==
    IF i > Len(sort_boxes) THEN [pred_boxes |-> pred, classId |-> cls]
    ELSE IF cls[sort_boxes[i]] # -1
         THEN NmsLoop(sort_boxes, ious, thresh, i + 1,
                      [k \in DOMAIN cls |->
                          IF \E j \in (i + 1)..Len(sort_boxes) :
                                /\ sort_boxes[j] = k
                                /\ Suppresses(ProbIou(ious, sort_boxes[i], k),
                                              thresh)
                          THEN -1 ELSE cls[k]],
                      Append(pred, sort_boxes[i]))
         ELSE NmsLoop(sort_boxes, ious, thresh, i + 1, cls, pred)

\* RKNN_YOLO._nms_rotated(boxes, nms_thresh): pred_boxes as positions in
\* boxes, and the classId the boxes are left with
nms_rotated(boxes, ious, thresh) ==
    NmsLoop(SortedByScore(boxes, DOMAIN boxes), ious, thresh, 1,
            [k \in DOMAIN boxes |-> boxes[k].classId], <<>>)

\* the boxes _postprocess builds: a class index and a score
NmsBoxes == [classId : {0}, score : {50, 70, 90}]

\* rotated-IoU values: at the threshold and above it
NmsIous == {nms_thresh, 60}

\* the pairs of positions of a list of n boxes
Pairs(n) == {p \in (1..n) \X (1..n) : p[1] < p[2]}

InitNms ==
    \E n \in 0..MaxBoxes :
    \E boxes \in [1..n -> NmsBoxes], ious \in [Pairs(n) -> NmsIous] :
        InitPure([fn |-> "nms", boxes |-> boxes, ious |-> ious,
                  done |-> FALSE])

ApplyNms ==
    /\ pure.fn = "nms"
    /\ ~pure.done
    /\ \E r \in {nms_rotated(pure.boxes, pure.ious, nms_thresh)} :
          pure' = [fn |-> "nms", boxes |-> pure.boxes, ious |-> pure.ious,
                   done |-> TRUE,
                   sort_boxes |-> SortedByScore(pure.boxes,
                                                DOMAIN pure.boxes),
                   pred_boxes |-> r.pred_boxes,
                   classId |-> r.classId]
    /\ UNCHANGED <<tracks, tracked_tracks, lost_tracks, removed_tracks,
                   frame_id, max_time_lost, STrack_next_id, outputs,
                   history, call, lost_frame, running>>

SpecNms == InitNms /\ [][ApplyNms]_vars

\* ------------------------------------------------- RKNN_YOLO._postprocess
\* The decoding loop of lines 204-267 for one head whose feature map has
\* one row of MapWidth columns, and one class.  A tensor is a function from
\* its flat index (from 0) to a number; a number is [e |-> k, n |-> v]:
\* the integer v with exp applied k times.  exp(0) = 1 is the only case in
\* which two such numbers with different k are equal.
Num(v) == [e |-> 0, n |-> v]

\* math.exp
Exp(x) == IF x = Num(0) THEN Num(1) ELSE [x EXCEPT !.e = @ + 1]

\* the index of bin df of side lc of the cell in column w (line 245, h = 0)
RegIndex(lc, df, w) == ((lc * reg_num) + df) * MapWidth + w

\* self._sigmoid(x) > self.object_thresh for an integer logit x:
\* 1 / (1 + exp(-x)) > 0.45 iff x > ln(9/11), which is about -0.2
PassesObjectThresh(x) == x >= 0

\* lines 241-247 for the cell in column w: every bin of the four sides is
\* overwritten with its exponential
ExpCell(reg, w) ==
    [idx \in DOMAIN reg |->
        IF \E lc \in 0..3, df \in 0..(reg_num - 1) : idx = RegIndex(lc, df, w)
        THEN Exp(reg[idx]) ELSE reg[idx]]

\* the loop over the columns from w on: reg is the array the loop reads and
\* writes, detect_result the boxes appended so far.  A box is given by its
\* class, its score logit, its cell and the exponentials its sides are
\* computed from.
RECURSIVE DecodeFrom(_, _, _, _)
DecodeFrom(reg, cls, w, detect_result) ==
    IF w >= MapWidth THEN [reg |-> reg, detect_result |-> detect_result]
    ELSE IF PassesObjectThresh(cls[w])
         THEN LET after == ExpCell(reg, w)
              IN  DecodeFrom(after, cls, w + 1,
                     Append(detect_result,
                            [classId |-> 0, score |-> cls[w], w |-> w,
                             temp |-> [lc \in 0..3 |->
                                         [df \in 0..(reg_num - 1) |->
                                            after[RegIndex(lc, df, w)]]]]))
         ELSE DecodeFrom(reg, cls, w + 1, detect_result)

\* lines 204-267: out[i].reshape((-1)) is a view of out[i] when out[i] is
\* contiguous and a copy otherwise, so the writes of the loop reach the
\* caller's tensor exactly when it is contiguous
postprocess(out) ==
    LET r == DecodeFrom(out.reg, out.cls, 0, <<>>)
    IN  [out |-> IF out.contiguous THEN [out EXCEPT !.reg = r.reg] ELSE out,
         detect_result |-> r.detect_result]

\* head tensors: every bin of a cell holds the same logit, 0 or 1, and the
\* class logit of a cell is -1, 0 or 1
InitDecode ==
    \E flat \in [0..(MapWidth - 1) -> {0, 1}],
       cls \in [0..(MapWidth - 1) -> {-1, 0, 1}],
       contiguous \in BOOLEAN :
        InitPure([fn |-> "decode",
                  out |-> [reg |-> [idx \in 0..(4 * reg_num * MapWidth - 1)
                                      |-> Num(flat[idx % MapWidth])],
                           cls |-> cls,
                           contiguous |-> contiguous],
                  done |-> FALSE])

ApplyDecode ==
    /\ pure.fn = "decode"
    /\ ~pure.done
    /\ \E r \in {postprocess(pure.out)} :
          pure' = [fn |-> "decode", out |-> pure.out, done |-> TRUE,
                   out_after |-> r.out, detect_result |-> r.detect_result]
    /\ UNCHANGED <<tracks, tracked_tracks, lost_tracks, removed_tracks,
                   frame_id, max_time_lost, STrack_next_id, outputs,
                   history, call, lost_frame, running>>

SpecDecode == InitDecode /\ [][ApplyDecode]_vars


\* ================================================================= claims
D1 == Det(10, 10, 20, 20, 90)
D2 == Det(12, 12, 20, 20, 90)

\* the arena objects that are members of a list
Objects == DOMAIN tracks

\* the step is an update call
IsUpdateStep == frame_id' = frame_id + 1

\* ---------------------------------------------------------------------- C1
\* C1: at the end of every update call no track object is a member of more
\* than one of tracked_tracks, lost_tracks and removed_tracks.
C1_AtMostOneList ==
    \A t \in Objects :
        /\ ~(In(t, tracked_tracks) /\ In(t, lost_tracks))
        /\ ~(In(t, tracked_tracks) /\ In(t, removed_tracks))
        /\ ~(In(t, lost_tracks) /\ In(t, removed_tracks))

\* ---------------------------------------------------------------------- C2
\* C2: every entry of the result list belongs to a track whose state is
\* Tracked and whose is_activated flag is true when the call returns.
C2_EmittedAreTracked ==
    LET e == Emitted(tracks, tracked_tracks)
    IN  /\ Len(e) = Len(outputs)
        /\ \A i \in DOMAIN e :
              /\ tracks[e[i]].state = Tracked
              /\ tracks[e[i]].is_activated

\* ---------------------------------------------------------------------- C3
\* C3: without reset, the track_id values assigned by activation strictly
\* increase in order of assignment (the arena is in order of activation),
\* and no two distinct tracks in tracked_tracks carry the same track_id.
C3_IdsIncreaseAndUnique ==
    /\ \A i \in Objects, j \in Objects :
          i < j => tracks[i].track_id < tracks[j].track_id
    /\ \A i \in DOMAIN tracked_tracks, j \in DOMAIN tracked_tracks :
          tracked_tracks[i] # tracked_tracks[j]
              => tracks[tracked_tracks[i]].track_id
                    # tracks[tracked_tracks[j]].track_id

\* witness of C3: two tracks with different ids are tracked together
C3_Witness ==
    /\ Len(tracks) >= 2
    /\ \E i \in DOMAIN tracked_tracks, j \in DOMAIN tracked_tracks :
          tracked_tracks[i] # tracked_tracks[j]

\* ---------------------------------------------------------------------- C4
\* C4: a stationary object detected with the identical box and score 0.9 in
\* every frame is emitted by every call with the same track_id 1, is never
\* marked Removed, and no second track is spawned for it.
C4_StationaryKeepsTrack ==
    (/\ history # <<>>
     /\ \A i \in DOMAIN history : history[i] = <<D1>>)
    => /\ \E i \in DOMAIN outputs : outputs[i].track_id = 1
       /\ tracks[1].state # Removed
       /\ Len(tracks) = 1

\* ---------------------------------------------------------------------- C5
\* C5 as claimed: after frame 1 with (10,10,20,20) at 0.9 and frame 2 with
\* (12,12,20,20) at 0.9 the result holds track_id 1, no new id was spawned
\* and the track's tracklet_len is 2.
C5_Original ==
    history = << <<D1>>, <<D2>> >>
    => /\ \E i \in DOMAIN outputs : outputs[i].track_id = 1
       /\ STrack_next_id = 1
       /\ tracks[1].tracklet_len = 2

\* C5 as amended: after those two frames the result does not hold track 1
\* (the IoU of the two boxes, 324/476, is below match_thresh): track 1 is
\* Lost in lost_tracks, and the result is the one track spawned from the
\* second detection, with track_id 2 and tracklet_len 0.
C5_Amended ==
    history = << <<D1>>, <<D2>> >>
    => /\ outputs = << [track_id |-> 2, class_id |-> 0, score |-> 90,
                        bbox |-> <<12, 12, 20, 20>>] >>
       /\ tracked_tracks = <<2>>
       /\ In(1, lost_tracks)
       /\ tracks[1].state = Lost
       /\ tracks[1].track_id = 1
       /\ tracks[2].tracklet_len = 0
       /\ STrack_next_id = 2

C5_Witness == history = << <<D1>>, <<D2>> >> /\ frame_id = 2

\* ---------------------------------------------------------------------- C6
\* C6: on a fresh tracker the first update call with exactly one detection
\* of score 0.9 returns exactly one result, with track_id 1, and that
\* track is in tracked_tracks with state Tracked.
C6_FirstDetection ==
    (/\ Len(history) = 1
     /\ Len(history[1]) = 1
     /\ history[1][1].score = 90)
    => /\ Len(outputs) = 1
       /\ outputs[1].track_id = 1
       /\ \E t \in Objects :
             /\ tracks[t].track_id = 1
             /\ tracks[t].state = Tracked
             /\ In(t, tracked_tracks)

C6_Witness ==
    /\ Len(history) = 1
    /\ Len(history[1]) = 1
    /\ history[1][1].score = 90
    /\ frame_id = 1

\* ---------------------------------------------------------------------- C7
\* C7: an update call with an empty detection list moves every track that
\* was in tracked_tracks to lost_tracks with state Lost, returns an empty
\* result list and spawns no track.
C7_EmptyFrame ==
    [][ (IsUpdateStep /\ history' = Append(history, <<>>))
        => /\ \A t \in Range(tracked_tracks) :
                 /\ In(t, lost_tracks')
                 /\ ~In(t, tracked_tracks')
                 /\ tracks'[t].state = Lost
           /\ outputs' = <<>>
           /\ Len(tracks') = Len(tracks) ]_vars

\* ---------------------------------------------------------------------- C8
\* C8 as claimed: with track_buffer = 3 a track that entered Lost in frame
\* lost_frame and is unmatched afterwards is Removed from the call of frame
\* lost_frame + 4 on, and not before.
C8_Original ==
    max_time_lost = 3 =>
        \A t \in Objects :
            lost_frame[t] # 0 =>
                (tracks[t].state = Removed <=> frame_id >= lost_frame[t] + 4)

\* C8 as amended: with track_buffer = 3 a track that left tracked_tracks for
\* lost_tracks in state Lost in the call of frame lost_frame (it is never
\* matched afterwards) is Lost up to frame lost_frame + 2 and Removed from
\* the call of frame lost_frame + 3 on.
C8_Amended ==
    max_time_lost = 3 =>
        \A t \in Objects :
            lost_frame[t] # 0 =>
                /\ tracks[t].state \in {Lost, Removed}
                /\ tracks[t].state = Removed <=> frame_id >= lost_frame[t] + 3
                /\ ~In(t, tracked_tracks)

C8_Witness ==
    /\ max_time_lost = 3
    /\ \E t \in Objects :
          /\ lost_frame[t] # 0
          /\ frame_id = lost_frame[t] + 3
          /\ tracks[t].state = Removed
          /\ In(t, removed_tracks)

\* ---------------------------------------------------------------------- C9
\* C9: in every update call each track that was in lost_tracks when the
\* call started and whose last update (its frame_id field) is more than
\* max_time_lost frames before the call's frame is marked Removed and
\* placed in removed_tracks in that call.
C9_TimedOutAreRemoved ==
    [][ IsUpdateStep
        => \A t \in Range(lost_tracks) :
              frame_id' - tracks[t].frame_id > max_time_lost
                  => /\ tracks'[t].state = Removed
                     /\ In(t, removed_tracks') ]_vars

C9_Witness ==
    \E t \in Range(lost_tracks) :
        /\ frame_id - tracks[t].frame_id > max_time_lost
        /\ tracks[t].state = Removed
        /\ In(t, removed_tracks)

\* --------------------------------------------------------------------- C10
\* C10: a track that is in removed_tracks after one update call is not in
\* removed_tracks after a later call.
C10_RemovedOnce ==
    [][ IsUpdateStep
        => \A t \in Range(removed_tracks) : ~In(t, removed_tracks') ]_vars

\* ------------------------------------------------- the record of a call
\* the tracks STrack.update ran on in the last update call
UpdatedIn(c) ==
    {c.m1[i][1] : i \in DOMAIN c.m1} \cup {c.m2[i][1] : i \in DOMAIN c.m2}
        \cup {c.m3[i][1] : i \in DOMAIN c.m3}

\* the columns of high_score_detections matched by stage 1 or by the
\* unconfirmed pass in the last update call
MatchedHigh(c) ==
    {c.m1[i][2] : i \in DOMAIN c.m1} \cup {c.m3[i][2] : i \in DOMAIN c.m3}

\* the columns of high_score_detections the spawn loop made a track of
SpawnedCols(c) == {c.spawned[i][1] : i \in DOMAIN c.spawned}

\* whether a track's box and a converted detection reach match_thresh
Overlaps(t, d) == AboveMatchThresh(iou_batch(to_tlbr(t), to_tlbr(d)))

\* --------------------------------------------------------------------- C11
\* C11: lost_tracks does not retain evicted tracks: a track that was
\* already Removed before an update call, and is still Removed after it, is
\* in neither lost_tracks nor tracked_tracks after that call.
C11_EvictedAreDropped ==
    [][ IsUpdateStep
        => \A t \in Objects :
              (tracks[t].state = Removed /\ tracks'[t].state = Removed)
              => (~In(t, lost_tracks') /\ ~In(t, tracked_tracks')) ]_vars

C13_LostIsRematched ==
    [][ IsUpdateStep
        => \A t \in Objects : \A j \in DOMAIN call'.high :
              ( /\ In(t, lost_tracks)
                /\ ~In(t, tracked_tracks)
                /\ tracks[t].state = Lost
                /\ ~TimedOut(tracks[t], frame_id + 1, max_time_lost)
                /\ Overlaps(tracks[t], call'.high[j]) )
              => ( /\ tracks'[t].state = Tracked
                   /\ In(t, tracked_tracks')
                   /\ tracks'[t].track_id = tracks[t].track_id
                   /\ j \notin SpawnedCols(call') ) ]_vars

\* --------------------------------------------------------------------- C14
\* whether a track's box and a converted detection intersect at all
Intersects(t, d) == iou_batch(to_tlbr(t), to_tlbr(d)).intersection > 0

\* C14: a Tracked track of tracked_tracks whose box reaches match_thresh
\* with a detection of score < track_thresh, and intersects no other
\* detection of the frame, is matched to that detection in stage 2 of the
\* call, has an entry with its track_id in the call's result, and the call
\* makes no track of a low-score detection.
C14_LowStageKeepsTrack ==
    [][ IsUpdateStep
        => \A t \in Objects : \A j \in DOMAIN call'.low :
              ( /\ In(t, tracked_tracks)
                /\ tracks[t].state = Tracked
                /\ tracks[t].is_activated
                /\ Overlaps(tracks[t], call'.low[j])
                /\ \A k \in DOMAIN call'.low :
                      k # j => ~Intersects(tracks[t], call'.low[k])
                /\ \A k \in DOMAIN call'.high :
                      ~Intersects(tracks[t], call'.high[k]) )
              => ( /\ \E i \in DOMAIN call'.m2 : call'.m2[i] = <<t, j>>
                   /\ \E i \in DOMAIN outputs' :
                         outputs'[i].track_id = tracks[t].track_id
                   /\ \A u \in DOMAIN tracks' \ DOMAIN tracks :
                         tracks'[u].score >= track_thresh ) ]_vars

\* --------------------------------------------------------------------- C15
\* C15: a track matched in stage 1 of an update call is not offered to
\* stage 2 of that call and mark_lost does not run on it in that call.
C15_MatchedNotLost ==
    call.op = "update"
    => \A i \in DOMAIN call.m1 :
          /\ ~In(call.m1[i][1], call.rows2)
          /\ ~In(call.m1[i][1], call.marked_lost)

\* --------------------------------------------------------------------- C16
\* C16: a track spawned by the previous update call (activated,
\* tracklet_len 0) that no detection of this call is matched to is Removed
\* after this call and is not in lost_tracks.
C16_UnmatchedSpawnRemoved ==
    [][ IsUpdateStep
        => \A t \in Objects :
              ( /\ In(t, tracked_tracks)
                /\ tracks[t].is_activated
                /\ tracks[t].tracklet_len = 0
                /\ tracks[t].start_frame = frame_id
                /\ t \notin UpdatedIn(call') )
              => (tracks'[t].state = Removed /\ ~In(t, lost_tracks')) ]_vars

\* --------------------------------------------------------------------- C17
\* C17: in every update call, each detection with score >= track_thresh
\* that no stage matched to a track becomes exactly one new track: a new
\* object, in state Tracked and in tracked_tracks after the call, whose
\* track_id is greater than the id of every track made before it.
C17_UnmatchedHighSpawnsOnce ==
    [][ IsUpdateStep
        => \A j \in DOMAIN call'.high :
              j \notin MatchedHigh(call')
              => /\ Cardinality({i \in DOMAIN call'.spawned :
                                    call'.spawned[i][1] = j}) = 1
                 /\ \A i \in DOMAIN call'.spawned :
                       call'.spawned[i][1] = j
                       => LET t == call'.spawned[i][2]
                          IN  /\ t \notin DOMAIN tracks
                              /\ tracks'[t].state = Tracked
                              /\ In(t, tracked_tracks')
                              /\ tracks'[t].track_id > STrack_next_id
                              /\ \A u \in 1..(t - 1) :
                                    tracks'[u].track_id
                                        < tracks'[t].track_id ]_vars

\* the last call matched a high-score detection to a track and made a new
\* track of another one
C17_Witness ==
    /\ call.op = "update"
    /\ Len(call.high) = 2
    /\ Len(call.m1) = 1
    /\ \E i \in DOMAIN call.spawned :
          /\ call.spawned[i][1] \notin MatchedHigh(call)
          /\ tracks[call.spawned[i][2]].track_id > 1

\* --------------------------------------------------------------------- C18
\* C18: a detection with score < track_thresh never creates a track: every
\* object an update call adds (activate ran on it and gave it a track_id)
\* has a score of at least track_thresh, and there is one such object per
\* entry of the spawn loop.
C18_LowNeverSpawns ==
    [][ IsUpdateStep
        => /\ Len(tracks') = Len(tracks) + Len(call'.spawned)
           /\ \A t \in DOMAIN tracks' \ DOMAIN tracks :
                 tracks'[t].score >= track_thresh ]_vars

\* the last call had a low-score detection that matched no track, and
\* made no track
C18_Witness ==
    /\ call.op = "update"
    /\ call.low # <<>>
    /\ call.m2 = <<>>
    /\ call.spawned = <<>>
    /\ frame_id > 1

\* --------------------------------------------------------------------- C19
\* what the constructor leaves: the three lists empty, frame_id 0, and the
\* id allocator at the value of the class definition
Constructed ==
    /\ tracked_tracks = <<>>
    /\ lost_tracks = <<>>
    /\ removed_tracks = <<>>
    /\ frame_id = 0
    /\ STrack_next_id = 0

\* the result of the first update call of a new tracker: one entry per
\* high-score detection, numbered from 1 in input order
FirstOutputs(high) ==
    [i \in DOMAIN high |->
        [track_id |-> i, class_id |-> high[i].class_id,
         score |-> high[i].score, bbox |-> high[i].tlwh]]

\* C19: after reset() the tracker is as the constructor leaves it (lists
\* empty, frame_id 0, id allocator 0), and the update call that follows a
\* reset returns what the first update call of a new tracker returns.
C19_ResetIsFresh ==
    [][ /\ call'.op = "reset" => Constructed'
        /\ (call.op = "reset" /\ IsUpdateStep)
           => outputs' = FirstOutputs(call'.high) ]_vars

\* a reset of a tracker that had processed frames and assigned ids
C19_Witness ==
    /\ call.op = "reset"
    /\ call.frame_id > 1
    /\ call.next_id > 1

\* --------------------------------------------------------------------- C20
\* the detection list without the entries whose conversion raises
WellFormed(detection_results) == SelectSeq(detection_results, Converts)

\* C20: a detection whose conversion raises is skipped: every update call
\* returns the result, and leaves the tracker in the state, of an update
\* call on the list without the malformed entries.
C20_MalformedSkipped ==
    [][ IsUpdateStep
        => UpdateCore(WellFormed(history'[Len(history')])) ]_vars

\* the last call's list held a malformed entry before a well-formed one,
\* and the call made a track or updated one
C20_Witness ==
    /\ call.op = "update"
    /\ LET dets == history[Len(history)]
       IN  /\ Len(dets) = 2
           /\ ~Converts(dets[1])
           /\ Converts(dets[2])
    /\ (call.spawned # <<>> \/ call.m1 # <<>> \/ call.m2 # <<>>)

\* --------------------------------------------------------------------- C21
\* what a reader sees now
VisibleNow == Visible(tracks, tracked_tracks, lost_tracks, removed_tracks)

\* C21: an update call is atomic for a reader of the three lists and the
\* tracks' states: whatever was visible between two statements of a call
\* that returns is the state from before the call or the state after it,
\* and what is visible after a call was abandoned is the state from before
\* the call.
C21_UpdateIsAtomic ==
    [][ /\ (running.pc = "lost" /\ running'.pc = "idle")
           => \A v \in running.seen : v = running.before \/ v = VisibleNow'
        /\ (running.pc \notin {"idle", "lost"} /\ running'.pc = "idle")
           => VisibleNow' = running.before ]_vars

\* --------------------------------------------------------------------- C22
\* the area of a box [x1, y1, x2, y2]
Area(b) == (b[3] - b[1]) * (b[4] - b[2])

\* symmetry and range of iou_batch on the boxes of the last application
IouSymmetricInRange ==
    /\ pure.ab = pure.ba
    /\ 0 <= pure.ab.intersection
    /\ pure.ab.intersection <= pure.ab.union
    /\ IouValue(pure.ab) >= 0
    /\ IouValue(pure.ab) <= 1000000

Rebuilt(xyah) ==
    LET width == FracMul(xyah[4], xyah[3])
    IN  <<FracSub(xyah[1], FracHalf(width)),
          FracSub(xyah[2], FracHalf(xyah[4])), width, xyah[4]>>

\* whether the rebuilt box is the box tlwh
RebuiltIs(xyah, tlwh) ==
    \A i \in 1..4 : FracIs(Rebuilt(xyah)[i], tlwh[i])

\* C23 as stated: for every box (x, y, w, h), to_tlbr followed by
\* tlbr_to_tlwh returns the box, and the box rebuilt from tlwh_to_xyah is
\* the box.
C23_Original ==
    (pure.fn = "box" /\ pure.done)
    => (pure.back = pure.tlwh /\ RebuiltIs(pure.xyah, pure.tlwh))

\* C23, amended: for every box (x, y, w, h), to_tlbr followed by
\* tlbr_to_tlwh returns the box; the box rebuilt from tlwh_to_xyah is the
\* box if h # 0, and is not the box if h = 0 (w/h is inf or nan).
C23_Amended ==
    (pure.fn = "box" /\ pure.done)
    => /\ pure.back = pure.tlwh
       /\ pure.tlwh[4] # 0 => RebuiltIs(pure.xyah, pure.tlwh)
       /\ pure.tlwh[4] = 0 => ~RebuiltIs(pure.xyah, pure.tlwh)

\* the conversions were applied to a box of odd width and positive height
\* away from the origin
C23_Witness ==
    /\ pure.fn = "box"
    /\ pure.done
    /\ pure.tlwh[1] > 0
    /\ pure.tlwh[3] = 1
    /\ pure.tlwh[4] = 2

\* --------------------------------------------------------------------- C24
\* the position of box k in sort_boxes
Rank(k) == CHOOSE i \in DOMAIN pure.sort_boxes : pure.sort_boxes[i] = k

\* C24: _nms_rotated drops a box if and only if a box kept before it in
\* descending score order has a rotated IoU above the threshold with it;
\* of two boxes in a list of two, with different scores, only the higher-
\* scoring one is returned if their IoU is above the threshold, and both
\* are returned if it is not.
C24_NmsRule ==
    (pure.fn = "nms" /\ pure.done)
    => /\ \A k \in DOMAIN pure.boxes :
             ~In(k, pure.pred_boxes)
             <=> \E m \in Range(pure.pred_boxes) :
                    /\ Rank(m) < Rank(k)
                    /\ ProbIou(pure.ious, m, k) > nms_thresh
       /\ (Len(pure.boxes) = 2 /\ pure.boxes[1].score > pure.boxes[2].score)
          => IF pure.ious[<<1, 2>>] > nms_thresh
             THEN pure.pred_boxes = <<1>>
             ELSE pure.pred_boxes = <<1, 2>>

\* three boxes of different scores: the first suppresses the second, and
\* the third, which overlaps the second only, is kept
C24_Witness ==
    /\ pure.fn = "nms"
    /\ pure.done
    /\ Len(pure.boxes) = 3
    /\ pure.sort_boxes = <<3, 1, 2>>
    /\ pure.ious[<<1, 3>>] > nms_thresh
    /\ pure.ious[<<1, 2>>] > nms_thresh
    /\ pure.ious[<<2, 3>>] = nms_thresh
    /\ pure.pred_boxes = <<3, 2>>

\* --------------------------------------------------------------------- C25
\* whether no element occurs twice in a sequence
NoRepeat(s) == \A i, j \in DOMAIN s : s[i] = s[j] => i = j

\* C25: after any sequence of update calls tracked_tracks holds each track
\* object at most once, and no track_id occurs twice in the result of a
\* call.
C25_TrackedOnce ==
    /\ NoRepeat(tracked_tracks)
    /\ NoRepeat([i \in DOMAIN outputs |-> outputs[i].track_id])

\* --------------------------------------------------------------------- C26
\* how often x occurs in the sequence s
Count(s, x) == Cardinality({i \in DOMAIN s : s[i] = x})

\* C26: in every update call predict is applied exactly once to each
\* distinct track that is activated in tracked_tracks, or in lost_tracks, at
\* the start of the call, and to no track twice.
C26_PredictedOnce ==
    [][IsUpdateStep =>
         \A t \in Objects :
            Count(call'.predicted, t) =
               IF \/ In(t, ConfirmedOf(tracks, tracked_tracks))
                  \/ In(t, lost_tracks)
               THEN 1 ELSE 0]_vars

\* --------------------------------------------------------------------- C27
\* the to_tlbr() box of track t when stage 2 builds its matrix: the box of
\* the last detection stage 1 updated it from, else its box at the start
BoxAtStage2(t) ==
    LET hits == {i \in DOMAIN call'.m1 : call'.m1[i][1] = t}
    IN  IF hits = {} THEN to_tlbr(tracks[t])
        ELSE to_tlbr(call'.high[call'.m1[
                 CHOOSE i \in hits : \A j \in hits : j <= i][2]])

\* C27: in stage 1, stage 2 and the unconfirmed pass a track is updated
\* from a detection only if the IoU of their boxes, as the stage computed
\* it, is at least match_thresh.
C27_ThresholdGates ==
    [][IsUpdateStep =>
         /\ \A i \in DOMAIN call'.m1 :
               AboveMatchThresh(iou_batch(
                   to_tlbr(tracks[call'.m1[i][1]]),
                   to_tlbr(call'.high[call'.m1[i][2]])))
         /\ \A i \in DOMAIN call'.m2 :
               AboveMatchThresh(iou_batch(
                   BoxAtStage2(call'.m2[i][1]),
                   to_tlbr(call'.low[call'.m2[i][2]])))
         /\ \A i \in DOMAIN call'.m3 :
               AboveMatchThresh(iou_batch(
                   to_tlbr(tracks[call'.m3[i][1]]),
                   to_tlbr(call'.high[call'.m3[i][2]])))]_vars

\* a call in which stage 1 had a track and a high detection, the solver
\* paired them, and the pair was rejected: the track went on to stage 2 and
\* the detection was spawned
C27_Witness ==
    /\ call.op = "update"
    /\ call.high # <<>>
    /\ call.m1 = <<>>
    /\ call.rows2 # <<>>
    /\ call.spawned # <<>>

\* --------------------------------------------------------------------- C28
\* C28: a detection matched to a confirmed track in stage 1 is never matched
\* to an unconfirmed track in the same update call.
C28_UnconfirmedGetRemaining ==
    [][IsUpdateStep =>
         \A i \in DOMAIN call'.m1, j \in DOMAIN call'.m3 :
            call'.m1[i][2] # call'.m3[j][2]]_vars

\* --------------------------------------------------------------------- C29
\* C29: when stage 1 builds its IoU matrix, the box of each of its tracks
\* is the box of the track's Kalman mean after the predict calls of the
\* current update call.
C29_AssociationUsesPrediction ==
    [][(IsUpdateStep /\ call'.high # <<>>) =>
         \A i \in DOMAIN call'.boxes1 :
            LET t == ConfirmedOf(tracks, tracked_tracks)[i]
                kf == PredictEach(tracks, call'.predicted)[t].kf
            IN  kf.stage \in {"initiated", "updated"}
                => RebuiltIs(kf.mean, tlbr_to_tlwh(call'.boxes1[i]))]_vars

\* --------------------------------------------------------------------- C30
\* C30: an update call gives every track it spawns an id that no track had
\* before, leaves the track_id of every existing track as it was, and
\* after every call each track in tracked_tracks, lost_tracks or
\* removed_tracks has track_id >= 1.
C30_TrackIdIsStable ==
    [][ /\ IsUpdateStep =>
             /\ \A t \in DOMAIN tracks :
                   tracks'[t].track_id = tracks[t].track_id
             /\ \A t \in DOMAIN tracks' \ DOMAIN tracks :
                   /\ tracks'[t].track_id > STrack_next_id
                   /\ tracks'[t].track_id <= STrack_next_id'
                   /\ \A u \in DOMAIN tracks' :
                         tracks'[u].track_id = tracks'[t].track_id => u = t
        /\ \A t \in Range(tracked_tracks') \cup Range(lost_tracks')
                    \cup Range(removed_tracks') :
              tracks'[t].track_id >= 1 ]_vars

\* track 1 has been matched, marked lost and marked removed and still has
\* id 1, next to a younger track with another id
C30_Witness ==
    /\ Len(tracks) >= 2
    /\ tracks[1].track_id = 1
    /\ tracks[1].tracklet_len >= 1
    /\ tracks[1].state = Removed
    /\ tracks[1].end_frame > 0
    /\ In(1, removed_tracks)
    /\ tracks[2].track_id = 2

\* --------------------------------------------------------------------- C31
\* C31: a track that stage 2 of an update call matched to a low-score
\* detection ends that call in tracked_tracks with state Tracked and is not
\* in lost_tracks.
C31_Stage2UndoesLost ==
    [][IsUpdateStep =>
         \A i \in DOMAIN call'.m2 :
            LET t == call'.m2[i][1]
            IN  /\ In(t, tracked_tracks')
                /\ tracks'[t].state = Tracked
                /\ ~In(t, lost_tracks')]_vars

\* --------------------------------------------------------------------- C32
\* the input list as _nms_rotated leaves it
BoxesAfterNms ==
    [k \in DOMAIN pure.boxes |->
        [pure.boxes[k] EXCEPT !.classId = pure.classId[k]]]

\* C32: after _nms_rotated every input box has the classId and score it
\* had before, and a second call on the same list returns the same boxes.
C32_NmsLeavesInput ==
    (pure.fn = "nms" /\ pure.done)
    => /\ BoxesAfterNms = pure.boxes
       /\ nms_rotated(BoxesAfterNms, pure.ious, nms_thresh).pred_boxes
             = pure.pred_boxes

\* --------------------------------------------------------------------- C33
\* C33: the head tensors passed to _postprocess hold the same values after
\* the call as before.
C33_DecoderLeavesInput ==
    (pure.fn = "decode" /\ pure.done) => pure.out_after = pure.out

\* --------------------------------------------------------------------- C34
\* C34: the list _nms_rotated returns is in non-increasing score order with
\* boxes of equal score in input order; of two boxes of equal score the
\* earlier one of the input is considered first, so that in a list of two
\* equal-score boxes that overlap above the threshold the first is the one
\* returned.
C34_NmsOrder ==
    (pure.fn = "nms" /\ pure.done)
    => /\ \A i, j \in DOMAIN pure.pred_boxes :
             i < j =>
                LET a == pure.pred_boxes[i]
                    b == pure.pred_boxes[j]
                IN  \/ pure.boxes[a].score > pure.boxes[b].score
                    \/ (pure.boxes[a].score = pure.boxes[b].score /\ a < b)
       /\ \A a, b \in DOMAIN pure.boxes :
             (a < b /\ pure.boxes[a].score = pure.boxes[b].score)
             => Rank(a) < Rank(b)
       /\ (/\ Len(pure.boxes) = 2
           /\ pure.boxes[1].score = pure.boxes[2].score
           /\ pure.ious[<<1, 2>>] > nms_thresh)
          => pure.pred_boxes = <<1>>

\* three boxes, the last two of equal score and overlapping above the
\* threshold: the second is returned and the third is not
C34_Witness ==
    /\ pure.fn = "nms"
    /\ pure.done
    /\ Len(pure.boxes) = 3
    /\ pure.boxes[1].score < pure.boxes[2].score
    /\ pure.boxes[2].score = pure.boxes[3].score
    /\ pure.ious[<<2, 3>>] > nms_thresh
    /\ pure.ious[<<1, 2>>] = nms_thresh
    /\ pure.pred_boxes = <<2, 1>>

\* --------------------------------------------------------------------- C35
\* C35: after every update call every track in tracked_tracks has state
\* Tracked and is activated, every track in lost_tracks has state Lost, and
\* every track in removed_tracks has state Removed and is not activated.
C35_ListsAgreeWithState ==
    /\ \A t \in Range(tracked_tracks) :
          tracks[t].state = Tracked /\ tracks[t].is_activated
    /\ \A t \in Range(lost_tracks) : tracks[t].state = Lost
    /\ \A t \in Range(removed_tracks) :
          tracks[t].state = Removed /\ ~tracks[t].is_activated

\* --------------------------------------------------------------------- C36
\* the STrack.update calls of an update call, in order: the track and the
\* detection, as the list it is in and its column
UpdateCalls(c) ==
    [i \in DOMAIN c.m1 |-> <<c.m1[i][1], <<"high", c.m1[i][2]>> >>]
    \o [i \in DOMAIN c.m2 |-> <<c.m2[i][1], <<"low", c.m2[i][2]>> >>]
    \o [i \in DOMAIN c.m3 |-> <<c.m3[i][1], <<"high", c.m3[i][2]>> >>]

\* C36: within one update call no track has STrack.update invoked on it
\* more than once, and no detection updates more than one track.
C36_PairingIsOneToOne ==
    [][IsUpdateStep =>
         \A i, j \in DOMAIN UpdateCalls(call') :
            i # j => /\ UpdateCalls(call')[i][1] # UpdateCalls(call')[j][1]
                     /\ UpdateCalls(call')[i][2] # UpdateCalls(call')[j][2]]_vars

\* --------------------------------------------------------------------- C37
\* C37: within one update call no detection that updated a track, in
\* stage 1 or in the unconfirmed pass, is activated as a new track.  (The
\* spawn loop takes high-score detections only, so a detection matched in
\* stage 2 is never one of them.)
C37_MatchedNeverSpawns ==
    [][IsUpdateStep =>
         MatchedHigh(call') \cap SpawnedCols(call') = {}]_vars

\* --------------------------------------------------------------------- C38
\* C38: two distinct tracks that are in tracked_tracks of one tracker at the
\* same time never carry the same track_id, also when other trackers of
\* the process run update or reset in between.
C38_IdsUniqueAcrossTrackers ==
    \A i, j \in DOMAIN tracked_tracks :
        tracked_tracks[i] # tracked_tracks[j]
        => tracks[tracked_tracks[i]].track_id
              # tracks[tracked_tracks[j]].track_id

\* --------------------------------------------------------------------- C39
\* C39: detect_and_track, with tracking enabled, on a frame whose detection
\* list is empty returns an empty list and leaves the tracker as it was:
\* the lists, the tracks, frame_id and the id counter do not change.
C39_EmptyFrameSkipsTracker ==
    [][ (/\ pure'.fn = "detect_and_track"
         /\ pure'.op = "detect_and_track"
         /\ pure'.calls = pure.calls + 1
         /\ pure.with_tracking
         /\ pure'.detection_boxes = <<>>)
        => /\ pure'.result = <<>>
           /\ UNCHANGED <<tracks, tracked_tracks, lost_tracks,
                          removed_tracks, frame_id, STrack_next_id,
                          outputs>> ]_vars

\* an empty frame has come in while a track was tracked, and the tracker
\* still has the track and the frame counter of the frame before
C39_Witness ==
    /\ pure.fn = "detect_and_track"
    /\ pure.op = "detect_and_track"
    /\ pure.with_tracking
    /\ pure.calls = 2
    /\ pure.detection_boxes = <<>>
    /\ pure.result = <<>>
    /\ frame_id = 1
    /\ tracked_tracks = <<1>>
    /\ tracks[1].state = Tracked

====
